---- MODULE Spec2Model ----
(***************************************************************************)
(* Model of the dns-server daemon: the query resolver (DNSResolver.resolve *)
(* in lib/datatypes.py) and the lifecycle controller (DNSServer) that the  *)
(* D-Bus service of lib/api.py exposes.                                    *)
(*                                                                         *)
(* A Python string is a sequence of one-character strings.  A domain name  *)
(* as dnslib holds it is a sequence of labels; str() of it is the labels,  *)
(* each followed by a dot (the root name is ".").                          *)
(***************************************************************************)
EXTENDS Integers, Sequences, FiniteSets, TLC

(***************************************************************************)
(* Bounds of the model.                                                    *)
(***************************************************************************)
\* longest query name, in labels
MaxLabels == 3
\* resolve invocations are dispatched while the resolver's counter is below this
MaxCount == 1

(***************************************************************************)
(* Python string primitives used by normalize and wildcard_match.          *)
(***************************************************************************)
\* str.lower(), on the characters of the model's alphabet
lower_char(c) == IF c = "A" THEN "a" ELSE IF c = "B" THEN "b" ELSE c

lower(s) == [i \in 1..Len(s) |-> lower_char(s[i])]

\* str.rstrip("."): drop every trailing dot
RECURSIVE rstrip_dot(_)
rstrip_dot(s) ==
    IF s # <<>> /\ s[Len(s)] = "." THEN rstrip_dot(SubSeq(s, 1, Len(s) - 1)) ELSE s

\* str.startswith(p) and str.endswith(p)
startswith(s, p) == Len(p) <= Len(s) /\ SubSeq(s, 1, Len(p)) = p

endswith(s, p) == Len(p) <= Len(s) /\ SubSeq(s, Len(s) - Len(p) + 1, Len(s)) = p

\* str.split("."): the pieces between dots; the empty string splits into [""]
RECURSIVE split_dot(_)
split_dot(s) ==
    IF \E i \in 1..Len(s) : s[i] = "."
    THEN LET i == CHOOSE k \in 1..Len(s) :
                      s[k] = "." /\ \A j \in 1..(k - 1) : s[j] # "."
         IN  <<SubSeq(s, 1, i - 1)>> \o split_dot(SubSeq(s, i + 1, Len(s)))
    ELSE <<s>>

\* str() of a dnslib DNSLabel: every label followed by a dot, "." for the root
RECURSIVE label_str(_)
label_str(name) ==
    IF name = <<>> THEN <<>> ELSE Head(name) \o <<".">> \o label_str(Tail(name))

str(name) == IF name = <<>> THEN <<".">> ELSE label_str(name)

(***************************************************************************)
(* The helpers nested in resolve.                                          *)
(***************************************************************************)
\* mutant: the case of the name is kept
normalize_keeps_case(name) == rstrip_dot(name) \o <<".">>

normalize(name) == rstrip_dot(lower(name)) \o <<".">>

wildcard_match(qname, rname) ==
    IF ~startswith(rname, <<"*", ".">>) THEN FALSE
    ELSE LET suffix == SubSeq(rname, 3, Len(rname)) IN
         IF ~endswith(qname, suffix) THEN FALSE
         ELSE LET qlabels == split_dot(rstrip_dot(qname))
                  slabels == split_dot(rstrip_dot(suffix))
              IN  Len(qlabels) = Len(slabels) + 1

(***************************************************************************)
(* Inputs.  Labels are spelled over a small alphabet that still has an     *)
(* upper-case letter, a label ending in another label ("ba" / "a") and the *)
(* wildcard label.                                                         *)
(***************************************************************************)
QLabels == {<<"A">>, <<"b", "a">>}

Names(n) == UNION {[1..k -> QLabels] : k \in 0..n}

QTypes == {"A", "AAAA", "ANY"}

\* the queries a client may send: request.q.qname and request.q.qtype
Queries == [qname : Names(MaxLabels), qtype : QTypes]

\* the queries of the lifecycle specification
FewQueries == {[qname |-> <<<<"b", "a">>>>, qtype |-> "AAAA"]}

\* resource records as the zone parser yields them, in file order
RR(name, type, data) == [rname |-> name, rtype |-> type, rdata |-> data]

\* override records: ba.a. and bA.A. (one of type ANY), *.a. and *.
OverridePool == {[rname |-> <<<<"b", "a">>, <<"a">>>>, rtype |-> "A"],
                 [rname |-> <<<<"b", "A">>, <<"A">>>>, rtype |-> "ANY"],
                 [rname |-> <<<<"*">>, <<"a">>>>, rtype |-> "A"],
                 [rname |-> <<<<"*">>>>, rtype |-> "A"]}

\* zone records: a. (of type A and of type ANY) and *.A.
ZonePool == {[rname |-> <<<<"a">>>>, rtype |-> "A"],
             [rname |-> <<<<"a">>>>, rtype |-> "ANY"],
             [rname |-> <<<<"*">>, <<"A">>>>, rtype |-> "A"]}

\* a file's records: any sequence over the pool, each record's data its line
RecordSets(pool, n) ==
    UNION {{[i \in 1..k |-> RR(f[i].rname, f[i].rtype, i)] : f \in [1..k -> pool]} :
              k \in 0..n}

Upstreams == {"u1", "u2"}

(***************************************************************************)
(* State.                                                                  *)
(***************************************************************************)
VARIABLES
    config,       \* DNSServer.config["DNS"]: setting -> value
    state,        \* DNSServer.state
    dns_server,   \* DNSServer.dns_server: <<>> (None) or <<the listener>>
    resolvers,    \* the DNSResolver objects that exist, by identity
    threads,      \* the request handler threads, each inside one resolve call
    outcome,      \* how the last control call ended: "returned" or the error raised
    calls         \* the D-Bus method calls the main loop is running, by caller

vars == <<config, state, dns_server, resolvers, threads, outcome, calls>>

\* the clients of the D-Bus service
Callers == {"c1", "c2"}

\* a caller none of whose calls is running
IdleCall == [pc |-> "idle", op |-> "", setting |-> "", value |-> "", fault |-> "none",
             resolver |-> <<>>, seen |-> ""]

\* the handler threads of the listener; Solo is one query handled at a time
Handlers == {"h1", "h2"}

Solo == {"h1"}

\* a handler thread that is not inside resolve
IdleThread ==
    [pc |-> "idle", self |-> 0, request |-> <<>>, reply |-> <<>>, i |-> 0,
     upstream_response |-> <<>>, query |-> 0, next |-> "", ret |-> <<>>,
     raised |-> FALSE, attempts |-> <<>>, zone_consulted |-> FALSE, query0 |-> 0]

\* request.reply(): an empty answer section, the aa flag clear
EmptyReply == [rr |-> <<>>, aa |-> 0]

(***************************************************************************)
(* DNSResolver.resolve, one action per step of a handler thread.           *)
(***************************************************************************)
\* qname = normalize(str(request.q.qname).rstrip("."))
QName(request) == normalize(rstrip_dot(str(request.qname)))

\* mutant: a stored record of type ANY answers a query of any type
type_match_either_side(qtype, rr) == qtype \in {rr.rtype, "ANY"} \/ rr.rtype = "ANY"

\* qtype in (QTYPE[rr.rtype], "ANY")
type_match(qtype, rr) == qtype \in {rr.rtype, "ANY"}

RECURSIVE exact_matches(_, _)
exact_matches(records, request) ==
    IF records = <<>> THEN <<>>
    ELSE LET rr == Head(records)
             rest == exact_matches(Tail(records), request)
         IN  IF ~type_match(request.qtype, rr) THEN rest
             ELSE IF QName(request) = normalize(str(rr.rname)) THEN <<rr>> \o rest
             ELSE rest

RECURSIVE wildcard_matches(_, _)
wildcard_matches(records, request) ==
    IF records = <<>> THEN <<>>
    ELSE LET rr == Head(records)
             rest == wildcard_matches(Tail(records), request)
         IN  IF ~type_match(request.qtype, rr) THEN rest
             ELSE IF QName(request) = normalize(str(rr.rname)) THEN rest
             ELSE IF wildcard_match(QName(request), normalize(str(rr.rname)))
                  THEN <<rr>> \o rest
             ELSE rest

\* mutant: the wildcard matches are answered along with the exact ones
override_matches_both(records, request) ==
    exact_matches(records, request) \o wildcard_matches(records, request)

\* matches = exact_matches or wildcard_matches
override_matches(records, request) ==
    IF exact_matches(records, request) # <<>>
    THEN exact_matches(records, request)
    ELSE wildcard_matches(records, request)

\* the zone records the loop of the zone tier would answer from, in order
RECURSIVE zone_matches(_, _)
zone_matches(records, request) ==
    IF records = <<>> THEN <<>>
    ELSE LET rr == Head(records)
             rest == zone_matches(Tail(records), request)
         IN  IF type_match(request.qtype, rr)
                /\ QName(request) = normalize(str(rr.rname))
             THEN <<rr>> \o rest
             ELSE rest

\* the listener hands a request to resolve on a handler thread (lines 63-66)
Dispatch(t, Q) ==
    /\ threads[t].pc = "idle"
    /\ dns_server # <<>>
    /\ dns_server[1].serving
    /\ resolvers[dns_server[1].resolver].query < MaxCount
    /\ \E request \in Q :
          threads' = [threads EXCEPT ![t] =
                         [IdleThread EXCEPT !.pc = "override",
                                            !.self = dns_server[1].resolver,
                                            !.request = request,
                                            !.reply = EmptyReply,
                                            !.query0 = resolvers[dns_server[1].resolver].query]]
    /\ UNCHANGED <<config, state, dns_server, resolvers, outcome, calls>>

\* mutant: the override tier adds its answers and does not return
OverrideTier_no_return(t) ==
    /\ threads[t].pc = "override"
    /\ LET me == threads[t]
           records == resolvers[me.self].dns_override_records
           matches == override_matches(records, me.request)
       IN  threads' = [threads EXCEPT ![t].reply.rr = me.reply.rr \o matches,
                                      ![t].pc = "zone"]
    /\ UNCHANGED <<config, state, dns_server, resolvers, outcome, calls>>

\* lines 69-84: the override tier
OverrideTier(t) ==
    /\ threads[t].pc = "override"
    /\ LET me == threads[t]
           records == resolvers[me.self].dns_override_records
           matches == override_matches(records, me.request)
       IN  IF records # <<>> /\ matches # <<>>
           THEN threads' = [threads EXCEPT ![t].reply.rr = me.reply.rr \o matches,
                                           ![t].pc = "read",
                                           ![t].next = "return"]
           ELSE threads' = [threads EXCEPT ![t].pc = "zone"]
    /\ UNCHANGED <<config, state, dns_server, resolvers, outcome, calls>>

\* mutant: the zone tier answers with every matching record, as the override tier
ZoneTier_every_match(t) ==
    /\ threads[t].pc = "zone"
    /\ LET me == threads[t]
           records == resolvers[me.self].dns_zone_records
           matches == zone_matches(records, me.request)
       IN  IF records # <<>> /\ matches # <<>>
           THEN threads' = [threads EXCEPT ![t].reply.rr = me.reply.rr \o matches,
                                           ![t].reply.aa = 1,
                                           ![t].zone_consulted = TRUE,
                                           ![t].pc = "read",
                                           ![t].next = "return"]
           ELSE threads' = [threads EXCEPT ![t].zone_consulted = TRUE,
                                           ![t].i = 1,
                                           ![t].pc = "send"]
    /\ UNCHANGED <<config, state, dns_server, resolvers, outcome, calls>>

\* lines 87-93: the zone tier
ZoneTier(t) ==
    /\ threads[t].pc = "zone"
    /\ LET me == threads[t]
           records == resolvers[me.self].dns_zone_records
           matches == zone_matches(records, me.request)
       IN  IF records # <<>> /\ matches # <<>>
           THEN threads' = [threads EXCEPT ![t].reply.rr = me.reply.rr \o <<Head(matches)>>,
                                           ![t].reply.aa = 1,
                                           ![t].zone_consulted = TRUE,
                                           ![t].pc = "read",
                                           ![t].next = "return"]
           ELSE threads' = [threads EXCEPT ![t].zone_consulted = TRUE,
                                           ![t].i = 1,
                                           ![t].pc = "send"]
    /\ UNCHANGED <<config, state, dns_server, resolvers, outcome, calls>>

\* mutant: the loop asks the primary upstream both times
Upstream_primary_twice(r, i) == r.primary_upstream

\* the upstream the loop of line 96 is at
Upstream(r, i) == IF i = 1 THEN r.primary_upstream ELSE r.backup_upstream

\* mutant: only a failure of send is caught, a parse error leaves resolve
Continue_parse_error_escapes(t, me) ==
    IF me.upstream_response # <<>>
    THEN [me EXCEPT !.raised = TRUE, !.pc = "done"]
    ELSE IF me.i = 1
    THEN [me EXCEPT !.i = 2, !.pc = "send", !.upstream_response = <<>>]
    ELSE [me EXCEPT !.i = 3, !.pc = "read", !.next = "end", !.upstream_response = <<>>]

\* mutant: a failed attempt on the primary upstream is made once more
Continue_retries_primary(t, me) ==
    IF me.i = 1 /\ Len(me.attempts) < 2
    THEN [me EXCEPT !.pc = "send", !.upstream_response = <<>>]
    ELSE IF me.i = 1
    THEN [me EXCEPT !.i = 2, !.pc = "send", !.upstream_response = <<>>]
    ELSE [me EXCEPT !.i = 3, !.pc = "read", !.next = "end", !.upstream_response = <<>>]

\* except Exception: continue (lines 101-103); after the backup the loop ends
Continue(t, me) ==
    IF me.i = 1
    THEN [me EXCEPT !.i = 2, !.pc = "send", !.upstream_response = <<>>]
    ELSE [me EXCEPT !.i = 3, !.pc = "read", !.next = "end", !.upstream_response = <<>>]

\* what request.send may do: raise, or return bytes that parse or do not
SendOutcomes == {"timeout", "connection error", "malformed", "ok"}

\* the upstream outcomes of the lifecycle specification
FewOutcomes == {"ok"}

\* a timeout and a connection error are both an exception out of send
SendResult(result) ==
    IF result \in {"timeout", "connection error"} THEN "raised" ELSE result

\* line 98: request.send(upstream, 53, tcp=False)
Send(t, O) ==
    /\ threads[t].pc = "send"
    /\ \E result \in O :
          LET me == threads[t]
              upstream == Upstream(resolvers[me.self], me.i)
              sent == [me EXCEPT !.attempts = @ \o <<[upstream |-> upstream,
                                                      slot |-> me.i,
                                                      result |-> SendResult(result)]>>]
          IN  IF result \in {"timeout", "connection error"}
              THEN threads' = [threads EXCEPT ![t] = Continue(t, sent)]
              ELSE threads' = [threads EXCEPT ![t] =
                                  [sent EXCEPT !.upstream_response =
                                                   <<[upstream |-> upstream,
                                                      slot |-> me.i,
                                                      question |-> me.request,
                                                      wellformed |-> (result = "ok")]>>,
                                               !.pc = "read",
                                               !.next = "parse"]]
    /\ UNCHANGED <<config, state, dns_server, resolvers, outcome, calls>>

\* DNSRecord.parse of the bytes an upstream sent
DNSRecord_parse(bytes) ==
    [answered_by |-> bytes.upstream, slot |-> bytes.slot, question |-> bytes.question]

\* line 100: return DNSRecord.parse(upstream_response)
Parse(t) ==
    /\ threads[t].pc = "parse"
    /\ LET me == threads[t]
           bytes == me.upstream_response[1]
       IN  IF bytes.wellformed
           THEN threads' = [threads EXCEPT ![t].ret = <<DNSRecord_parse(bytes)>>,
                                           ![t].pc = "done"]
           ELSE threads' = [threads EXCEPT ![t] = Continue(t, me)]
    /\ UNCHANGED <<config, state, dns_server, resolvers, outcome, calls>>

\* self.query = self.query + 1, the read
IncRead(t) ==
    /\ threads[t].pc = "read"
    /\ threads' = [threads EXCEPT ![t].query = resolvers[threads[t].self].query,
                                  ![t].pc = "write"]
    /\ UNCHANGED <<config, state, dns_server, resolvers, outcome, calls>>

\* self.query = self.query + 1, the write, and the statement after it
IncWrite(t) ==
    /\ threads[t].pc = "write"
    /\ LET me == threads[t] IN
       /\ resolvers' = [resolvers EXCEPT ![me.self].query = me.query + 1]
       /\ threads' = [threads EXCEPT ![t] =
             CASE me.next = "return" -> [me EXCEPT !.ret = <<me.reply>>, !.pc = "done"]
               [] me.next = "parse"  -> [me EXCEPT !.pc = "parse"]
               [] me.next = "end"    -> [me EXCEPT !.ret = <<>>, !.pc = "done"]]
    /\ UNCHANGED <<config, state, dns_server, outcome, calls>>

\* the resolvers still referred to, by the controller's listener or by a thread
Live(heap, listener, handlers) ==
    {r \in DOMAIN heap :
        \/ listener # <<>> /\ listener[1].resolver = r
        \/ \E t \in DOMAIN handlers : handlers[t].self = r}

\* a DNSResolver that nothing refers to any more is freed: the objects that are
\* left, in the order of their construction, and the references to them
Collect(heap, listener, handlers) ==
    LET live == Live(heap, listener, handlers)
        place(r) == Cardinality({q \in live : q <= r})
    IN  [resolvers |-> [k \in 1..Cardinality(live) |->
                           heap[CHOOSE r \in live : place(r) = k]],
         dns_server |-> IF listener = <<>> THEN <<>>
                        ELSE <<[listener[1] EXCEPT !.resolver = place(@)]>>,
         threads |-> [t \in DOMAIN handlers |->
                         IF handlers[t].self = 0 THEN handlers[t]
                         ELSE [handlers[t] EXCEPT !.self = place(@)]]]

\* resolve has returned to the handler, which ends
Finish(t) ==
    /\ threads[t].pc = "done"
    /\ LET left == Collect(resolvers, dns_server, [threads EXCEPT ![t] = IdleThread]) IN
       /\ threads' = left.threads
       /\ resolvers' = left.resolvers
       /\ dns_server' = left.dns_server
    /\ UNCHANGED <<config, state, outcome, calls>>

Resolve(T, Q, O) ==
    \E t \in T :
        \/ Dispatch(t, Q)
        \/ OverrideTier(t)
        \/ ZoneTier(t)
        \/ Send(t, O)
        \/ Parse(t)
        \/ IncRead(t)
        \/ IncWrite(t)
        \/ Finish(t)

(***************************************************************************)
(* The resolver alone: a running server whose record sets are any the zone *)
(* parser can have produced, answering any query.                          *)
(***************************************************************************)
\* most records in the override file and the zone file together
MaxRecords == 2

Settings == {"zone_file", "override_file", "primary_upstream", "backup_upstream",
             "laddr", "lport", "ttl"}

InitialConfig ==
    [s \in Settings |->
        CASE s = "zone_file" -> "zones"
          [] s = "override_file" -> "overrides"
          [] s = "primary_upstream" -> "u1"
          [] s = "backup_upstream" -> "u2"
          [] s = "laddr" -> "ip1"
          [] s = "lport" -> "53"
          [] s = "ttl" -> "60"]

\* int(): the values of lport that are numerals
Numerals == "53" :> 53

InitResolve ==
    /\ config = InitialConfig
    /\ state = "running"
    /\ \E zones \in RecordSets(ZonePool, MaxRecords),
          overrides \in RecordSets(OverridePool, MaxRecords) :
          /\ Len(zones) + Len(overrides) <= MaxRecords
          /\ resolvers = <<[primary_upstream |-> config["primary_upstream"],
                            backup_upstream |-> config["backup_upstream"],
                            dns_zone_records |-> zones,
                            dns_override_records |-> overrides,
                            query |-> 0]>>
    /\ dns_server = <<[resolver |-> 1, address |-> config["laddr"],
                       port |-> Numerals[config["lport"]], serving |-> TRUE]>>
    /\ threads = [t \in Handlers |-> IdleThread]
    /\ outcome = "returned"
    /\ calls = [c \in Callers |-> IdleCall]

NextResolve == Resolve(Solo, Queries, SendOutcomes)

SpecResolve == InitResolve /\ [][NextResolve]_vars

(***************************************************************************)
(* The listener's handler threads together: dnslib serves each request on  *)
(* a thread of its own, all of them calling resolve on the one resolver.   *)
(***************************************************************************)
InitConcurrent ==
    /\ config = InitialConfig
    /\ state = "running"
    /\ resolvers = <<[primary_upstream |-> config["primary_upstream"],
                      backup_upstream |-> config["backup_upstream"],
                      dns_zone_records |-> <<>>,
                      dns_override_records |-> <<>>,
                      query |-> 0]>>
    /\ dns_server = <<[resolver |-> 1, address |-> config["laddr"],
                       port |-> Numerals[config["lport"]], serving |-> TRUE]>>
    /\ threads = [t \in Handlers |-> IdleThread]
    /\ outcome = "returned"
    /\ calls = [c \in Callers |-> IdleCall]

NextConcurrent == Resolve(Handlers, FewQueries, SendOutcomes)

SpecConcurrent == InitConcurrent /\ [][NextConcurrent]_vars

(***************************************************************************)
(* The standalone server of dns_server.py.  Its resolver, RougeDNSServer,  *)
(* has a resolve of its own; here a whole call is one step, a function of  *)
(* the resolver's fields, the request and what each upstream does.  The    *)
(* logger the main block passes is a logging.Logger, whose calls return.   *)
(***************************************************************************)
\* lines 33-36
RougeDNSServer_normalize(name) == rstrip_dot(lower(name)) \o <<".">>

\* lines 38-51
RougeDNSServer_wildcard_match(qname, rname) ==
    IF ~startswith(rname, <<"*", ".">>) THEN FALSE
    ELSE LET suffix == SubSeq(rname, 3, Len(rname)) IN
         IF ~endswith(qname, suffix) THEN FALSE
         ELSE LET qlabels == split_dot(rstrip_dot(qname))
                  slabels == split_dot(rstrip_dot(suffix))
              IN  IF Len(qlabels) = Len(slabels) + 1 THEN TRUE ELSE FALSE

\* lines 66-74: the loop over the override records, filling the two lists
RECURSIVE RougeDNSServer_override_loop(_, _, _, _)
RougeDNSServer_override_loop(records, qname, qtype, found) ==
    IF records = <<>> THEN found
    ELSE LET rr == Head(records)
             rname == RougeDNSServer_normalize(str(rr.rname))
             filled ==
                 IF qtype \notin {rr.rtype, "ANY"} THEN found
                 ELSE IF qname = rname
                 THEN [found EXCEPT !.exact_matches = Append(@, rr)]
                 ELSE IF RougeDNSServer_wildcard_match(qname, rname)
                 THEN [found EXCEPT !.wildcard_matches = Append(@, rr)]
                 ELSE found
         IN  RougeDNSServer_override_loop(Tail(records), qname, qtype, filled)

\* mutant: the wildcard matches are never answered
RougeDNSServer_matches_exact_only(records, qname, qtype) ==
    RougeDNSServer_override_loop(records, qname, qtype,
        [exact_matches |-> <<>>, wildcard_matches |-> <<>>]).exact_matches

\* line 75: matches = exact_matches or wildcard_matches
RougeDNSServer_matches(records, qname, qtype) ==
    LET found == RougeDNSServer_override_loop(records, qname, qtype,
                     [exact_matches |-> <<>>, wildcard_matches |-> <<>>])
    IN  IF found.exact_matches # <<>> THEN found.exact_matches
        ELSE found.wildcard_matches

\* lines 87-93: the loop over the zone records returns at the first match
RECURSIVE RougeDNSServer_zone_loop(_, _, _)
RougeDNSServer_zone_loop(records, qname, qtype) ==
    IF records = <<>> THEN <<>>
    ELSE LET rr == Head(records) IN
         IF qtype \in {rr.rtype, "ANY"}
            /\ qname = RougeDNSServer_normalize(str(rr.rname))
         THEN <<rr>>
         ELSE RougeDNSServer_zone_loop(Tail(records), qname, qtype)

\* lines 98-107: the loop over the two upstreams from its i-th turn on, where
\* results[i] is what the i-th send does, query the counter so far and sent
\* the upstreams contacted so far
RECURSIVE RougeDNSServer_upstream_loop(_, _, _, _, _, _)
RougeDNSServer_upstream_loop(self, request, results, i, query, sent) ==
    IF i > 2
    THEN [ret |-> <<>>, query |-> query + 1, attempts |-> sent]
    ELSE LET upstream == IF i = 1 THEN self.primary_upstream ELSE self.backup_upstream
             attempts == Append(sent, [upstream |-> upstream, slot |-> i,
                                       result |-> results[i]])
             upstream_response == [upstream |-> upstream, slot |-> i,
                                   question |-> request,
                                   wellformed |-> (results[i] = "ok")]
         IN  IF results[i] = "raised"
             THEN RougeDNSServer_upstream_loop(self, request, results, i + 1,
                                               query, attempts)
             ELSE IF upstream_response.wellformed
             THEN [ret |-> <<DNSRecord_parse(upstream_response)>>,
                   query |-> query + 1, attempts |-> attempts]
             ELSE RougeDNSServer_upstream_loop(self, request, results, i + 1,
                                               query + 1, attempts)

\* lines 55-93: what resolve returns from the override tier or the zone tier
\* and the counter it leaves, or that it goes on to the upstreams
RougeDNSServer_local(self, request) ==
    LET qname == RougeDNSServer_normalize(rstrip_dot(str(request.qname)))
        qtype == request.qtype
        reply == EmptyReply
        matches == IF self.dns_override_records # <<>>
                   THEN RougeDNSServer_matches(self.dns_override_records, qname, qtype)
                   ELSE <<>>
        first == IF self.dns_zone_records # <<>>
                 THEN RougeDNSServer_zone_loop(self.dns_zone_records, qname, qtype)
                 ELSE <<>>
    IN  IF matches # <<>>
        THEN [ret |-> <<[reply EXCEPT !.rr = reply.rr \o matches]>>,
              query |-> self.query + 1, attempts |-> <<>>, zone_consulted |-> FALSE]
        ELSE IF first # <<>>
        THEN [ret |-> <<[reply EXCEPT !.rr = reply.rr \o first, !.aa = 1]>>,
              query |-> self.query + 1, attempts |-> <<>>, zone_consulted |-> TRUE]
        ELSE [ret |-> <<>>, query |-> self.query, attempts |-> <<>>,
              zone_consulted |-> TRUE]

(***************************************************************************)
(* The two resolvers side by side: the daemon's DNSResolver and the        *)
(* standalone server's RougeDNSServer, built from the same record files    *)
(* and the same upstream addresses.  The query the daemon has answered is  *)
(* put to the standalone server, whose upstreams do what the daemon's did. *)
(***************************************************************************)
\* the handler thread of the daemon's listener and that of the standalone server's
Daemon == "h1"

Standalone == "h2"

\* what a send can do, as resolve sees it
SendResults == {SendResult(result) : result \in SendOutcomes}

\* resolve has returned on the standalone server's handler thread
Returns(self, request, left, zone_consulted) ==
    /\ threads' = [threads EXCEPT ![Standalone] =
                      [IdleThread EXCEPT !.pc = "done",
                                         !.self = 2,
                                         !.request = request,
                                         !.ret = left.ret,
                                         !.attempts = left.attempts,
                                         !.zone_consulted = zone_consulted,
                                         !.query0 = self.query]]
    /\ resolvers' = [resolvers EXCEPT ![2].query = left.query]

\* lines 29-107: the standalone server's handler thread runs resolve for the
\* daemon's request; its i-th send does what the daemon's i-th send did
RougeResolve ==
    /\ threads[Daemon].pc = "done"
    /\ threads[Standalone].pc = "idle"
    /\ LET self == resolvers[2]
           request == threads[Daemon].request
           seen == threads[Daemon].attempts
           local == RougeDNSServer_local(self, request)
       IN  IF local.ret # <<>>
           THEN Returns(self, request, local, local.zone_consulted)
           ELSE \E further \in SendResults :
                   LET results == [i \in 1..2 |-> IF i <= Len(seen) THEN seen[i].result
                                                  ELSE further]
                   IN  Returns(self, request,
                               RougeDNSServer_upstream_loop(self, request, results, 1,
                                                            self.query, <<>>),
                               TRUE)
    /\ UNCHANGED <<config, state, dns_server, outcome, calls>>

\* dns_server.py lines 18-27 and 122-145, datatypes.py lines 20-35
InitCopies ==
    /\ config = InitialConfig
    /\ state = "running"
    /\ \E zones \in RecordSets(ZonePool, MaxRecords),
          overrides \in RecordSets(OverridePool, MaxRecords),
          primary \in Upstreams, backup \in Upstreams :
          /\ primary # backup
          /\ Len(zones) + Len(overrides) <= MaxRecords
          /\ resolvers = [object \in 1..2 |->
                             [primary_upstream |-> primary,
                              backup_upstream |-> backup,
                              dns_zone_records |-> zones,
                              dns_override_records |-> overrides,
                              query |-> 0]]
    /\ dns_server = <<[resolver |-> 1, address |-> config["laddr"],
                       port |-> Numerals[config["lport"]], serving |-> TRUE]>>
    /\ threads = [t \in Handlers |-> IdleThread]
    /\ outcome = "returned"
    /\ calls = [c \in Callers |-> IdleCall]

NextCopies ==
    \/ Dispatch(Daemon, Queries)
    \/ OverrideTier(Daemon)
    \/ ZoneTier(Daemon)
    \/ Send(Daemon, SendOutcomes)
    \/ Parse(Daemon)
    \/ IncRead(Daemon)
    \/ IncWrite(Daemon)
    \/ RougeResolve

SpecCopies == InitCopies /\ [][NextCopies]_vars

(***************************************************************************)
(* Properties of resolve.  The names of a query and of a record are        *)
(* compared here label by label, without regard to case, and a wildcard    *)
(* by its labels, not through the strings resolve builds.                  *)
(***************************************************************************)
SameLabels(n, m) ==
    Len(n) = Len(m) /\ \A k \in 1..Len(n) : lower(n[k]) = lower(m[k])

TypeMatches(request, rr) == rr.rtype = request.qtype \/ request.qtype = "ANY"

IsExact(request, rr) == TypeMatches(request, rr) /\ SameLabels(rr.rname, request.qname)

Exact(records, request) == SelectSeq(records, LAMBDA rr : IsExact(request, rr))

\* a record owned by *.<suffix>
IsWildcard(rr) == rr.rname # <<>> /\ Head(rr.rname) = <<"*">>

\* the handler threads whose resolve call has returned, and what they hold
Done == {t \in Handlers : threads[t].pc = "done"}

Overrides(t) == resolvers[threads[t].self].dns_override_records

Zones(t) == resolvers[threads[t].self].dns_zone_records

\* resolve returned a reply of its own making (not None, not an upstream's)
Replied(t) == threads[t].ret # <<>> /\ "rr" \in DOMAIN threads[t].ret[1]

Answers(t) == IF Replied(t) THEN threads[t].ret[1].rr ELSE <<>>

Contains(seq, x) == \E k \in 1..Len(seq) : seq[k] = x

\* C1: when some override record is a type match owned by the query's name,
\* the reply's answers are exactly those records, in the order of the override
\* set, and so hold no record that matched as a wildcard only.
C1_ExactPriority ==
    \A t \in Done :
        Exact(Overrides(t), threads[t].request) # <<>> =>
            /\ Replied(t)
            /\ Answers(t) = Exact(Overrides(t), threads[t].request)
            /\ \A k \in 1..Len(Answers(t)) : IsExact(threads[t].request, Answers(t)[k])

\* C1 witness: the exact match was returned although a wildcard record that
\* stands before it in the set matches the query as well
C1_Witness ==
    \E t \in Done :
        /\ Exact(Overrides(t), threads[t].request) # <<>>
        /\ IsWildcard(Head(Overrides(t)))
        /\ wildcard_matches(Overrides(t), threads[t].request) # <<>>
        /\ Replied(t)

\* C2: with no exact override match, a wildcard record *.<suffix> is in the
\* reply only if the query has exactly one label more than <suffix>, and it is
\* in the reply when the query is one label in front of <suffix>.
C2_WildcardLabelCount ==
    \A t \in Done :
        LET request == threads[t].request IN
        Exact(Overrides(t), request) = <<>> =>
            \A k \in 1..Len(Overrides(t)) :
                LET rr == Overrides(t)[k] IN
                IsWildcard(rr) =>
                    /\ (Replied(t) /\ threads[t].ret[1].aa = 0 /\ Contains(Answers(t), rr))
                           => Len(request.qname) = Len(Tail(rr.rname)) + 1
                    /\ (/\ TypeMatches(request, rr)
                        /\ request.qname # <<>>
                        /\ SameLabels(Tail(request.qname), Tail(rr.rname)))
                           => Contains(Answers(t), rr)

\* C3: when the override tier finds matches (the exact ones, else the wildcard
\* ones), resolve returns a reply of exactly those records, never looks at the
\* zone records and contacts no upstream.
C3_OverrideShortCircuit ==
    \A t \in Done :
        LET matches == override_matches(Overrides(t), threads[t].request) IN
        matches # <<>> =>
            /\ threads[t].ret = <<[rr |-> matches, aa |-> 0]>>
            /\ ~threads[t].zone_consulted
            /\ threads[t].attempts = <<>>

\* C3 witness: a reply made of wildcard matches alone
C3_Witness ==
    \E t \in Done :
        /\ Exact(Overrides(t), threads[t].request) = <<>>
        /\ override_matches(Overrides(t), threads[t].request) # <<>>
        /\ Zones(t) # <<>>
        /\ Replied(t)

\* C4: when the override tier finds nothing and some zone record is a type match
\* owned by the query's name, resolve returns a reply whose one answer is the
\* first such record, with the aa flag set, and contacts no upstream.
C4_ZoneFirstMatch ==
    \A t \in Done :
        LET request == threads[t].request IN
        (/\ override_matches(Overrides(t), request) = <<>>
         /\ Exact(Zones(t), request) # <<>>) =>
            /\ threads[t].ret = <<[rr |-> <<Head(Exact(Zones(t), request))>>, aa |-> 1]>>
            /\ threads[t].attempts = <<>>

\* C4 witness: two zone records match and one was returned
C4_Witness ==
    \E t \in Done :
        /\ override_matches(Overrides(t), threads[t].request) = <<>>
        /\ Len(Exact(Zones(t), threads[t].request)) >= 2
        /\ Len(Answers(t)) = 1

\* the results of the upstream attempts of a call, in order
Results(t) == [k \in 1..Len(threads[t].attempts) |-> threads[t].attempts[k].result]

\* C5: when no local tier answers, the attempt on the primary upstream fails and
\* the one on the backup upstream succeeds, resolve returns the parsed response
\* of the backup upstream.
C5_BackupAnswer ==
    \A t \in Done :
        (/\ Len(Results(t)) = 2
         /\ Results(t)[1] \in {"raised", "malformed"}
         /\ Results(t)[2] = "ok") =>
            threads[t].ret = <<[answered_by |-> resolvers[threads[t].self].backup_upstream,
                                slot |-> 2,
                                question |-> threads[t].request]>>

\* C5 witness: the primary's response did not parse and the backup answered
C5_Witness ==
    \E t \in Done : Results(t) = <<"malformed", "ok">> /\ threads[t].ret # <<>>

\* C6: when no local tier answers and both upstream attempts fail, resolve
\* returns None and raises nothing, and the server state and the outcome of the
\* last control call are as they were.
C6_BothUpstreamsFail ==
    \A t \in Done :
        (/\ Len(Results(t)) = 2
         /\ Results(t)[1] \in {"raised", "malformed"}
         /\ Results(t)[2] \in {"raised", "malformed"}) =>
            /\ threads[t].ret = <<>>
            /\ ~threads[t].raised
            /\ state = "running"
            /\ outcome = "returned"

\* C6 witness: the primary timed out or refused, the backup's response did not parse
C6_Witness ==
    \E t \in Done : Results(t) = <<"raised", "malformed">>

\* C7: a resolve call that runs alone leaves the counter one above what it was
\* when the call began, whatever tier answered.
C7_CounterOnce ==
    \A t \in Done : resolvers[threads[t].self].query = threads[t].query0 + 1

\* C18: with no exact override match, a wildcard record *.<suffix> is in the
\* reply only if the labels of the query after its first are, one by one, the
\* labels of <suffix>; stated here for a <suffix> of one label or more, so that
\* a name that merely ends in the characters of <suffix> is told apart.
C18_WildcardAlignment ==
    \A t \in Done :
        LET request == threads[t].request IN
        (Exact(Overrides(t), request) = <<>> /\ Replied(t) /\ threads[t].ret[1].aa = 0) =>
            \A k \in 1..Len(Answers(t)) :
                LET rr == Answers(t)[k] IN
                (IsWildcard(rr) /\ Len(rr.rname) >= 2) =>
                    /\ request.qname # <<>>
                    /\ SameLabels(Tail(request.qname), Tail(rr.rname))

\* the records of a set that the query's name owns, of whatever type
Owned(records, request) ==
    SelectSeq(records, LAMBDA rr : SameLabels(rr.rname, request.qname))

\* C19: a reply made by the override or the zone tier holds only records of
\* the query's type, unless the query's type is ANY; so a stored record of type
\* ANY answers no query of a concrete type.  A query of type ANY is answered
\* with the records its name owns whatever their type: all of them from the
\* override set, else the first of them from the zone set.
C19_OneDirectionalANY ==
    \A t \in Done :
        LET request == threads[t].request IN
        /\ \A k \in 1..Len(Answers(t)) :
              Answers(t)[k].rtype = request.qtype \/ request.qtype = "ANY"
        /\ (request.qtype = "ANY" /\ Owned(Overrides(t), request) # <<>>) =>
              Answers(t) = Owned(Overrides(t), request)
        /\ (/\ request.qtype = "ANY"
            /\ override_matches(Overrides(t), request) = <<>>
            /\ Owned(Zones(t), request) # <<>>) =>
              threads[t].ret = <<[rr |-> <<Head(Owned(Zones(t), request))>>, aa |-> 1]>>

\* C19 witness: a query of type A whose name owns a stored record of type ANY
\* was not answered from it
C19_Witness ==
    \E t \in Done :
        LET request == threads[t].request
            stored == Owned(Overrides(t), request) \o Owned(Zones(t), request)
        IN  /\ request.qtype = "A"
            /\ stored # <<>>
            /\ \A k \in 1..Len(stored) : stored[k].rtype = "ANY"
            /\ Answers(t) = <<>>

\* C20: a resolve call contacts at most two upstreams: first the primary, then,
\* only if that attempt failed, the backup; and a call that has returned has
\* contacted none if a local tier had an answer.
C20_UpstreamOrder ==
    \A t \in Handlers :
        threads[t].pc # "idle" =>
            LET attempts == threads[t].attempts
                resolver == resolvers[threads[t].self]
                request == threads[t].request
            IN  /\ Len(attempts) <= 2
                /\ Len(attempts) >= 1 =>
                      /\ attempts[1].slot = 1
                      /\ attempts[1].upstream = resolver.primary_upstream
                      /\ ~Replied(t)
                /\ (Len(attempts) >= 1 /\ threads[t].pc = "done") =>
                      /\ override_matches(Overrides(t), request) = <<>>
                      /\ Exact(Zones(t), request) = <<>>
                /\ Len(attempts) = 2 =>
                      /\ attempts[2].slot = 2
                      /\ attempts[2].upstream = resolver.backup_upstream
                      /\ attempts[1].result \in {"raised", "malformed"}

\* C20 witness: the backup upstream has answered after the primary failed, and
\* its response is about to be parsed
C20_Witness ==
    \E t \in Handlers :
        /\ threads[t].pc = "parse"
        /\ Len(threads[t].attempts) = 2
        /\ threads[t].attempts[1].upstream # threads[t].attempts[2].upstream

\* a name spelled in capitals, and in small letters
Capitals(name) ==
    [k \in 1..Len(name) |->
        [i \in 1..Len(name[k]) |->
            IF name[k][i] = "a" THEN "A" ELSE IF name[k][i] = "b" THEN "B" ELSE name[k][i]]]

Smalls(name) == [k \in 1..Len(name) |-> lower(name[k])]

\* the handler threads that have entered resolve and consulted no tier yet
Entered == {t \in Handlers : threads[t].pc = "override"}

\* C14: for the name of the query a call is entered with and the owner of
\* every record of its resolver, normalize applied twice gives what it gives
\* applied once, and it gives the same for the name without its last dot, with
\* one dot more, and in capitals; the query spelled in capitals or in small
\* letters finds the same override and zone records as the query itself; and
\* a record a call has answered with is owned by the query's name in some
\* spelling, or is a wildcard.
C14_Normalization ==
    /\ \A t \in Entered :
          LET request == threads[t].request
              owners == {request.qname}
                        \cup {Overrides(t)[k].rname : k \in 1..Len(Overrides(t))}
                        \cup {Zones(t)[k].rname : k \in 1..Len(Zones(t))}
              found == override_matches(Overrides(t), request)
              zoned == zone_matches(Zones(t), request)
          IN  /\ \A name \in owners :
                    LET once == normalize(str(name)) IN
                    /\ normalize(once) = once
                    /\ normalize(rstrip_dot(str(name))) = once
                    /\ normalize(str(name) \o <<".">>) = once
                    /\ normalize(str(Capitals(name))) = once
              /\ \A qname \in {Capitals(request.qname), Smalls(request.qname)}
                                  \ {request.qname} :
                    LET other == [request EXCEPT !.qname = qname] IN
                    /\ override_matches(Overrides(t), other) = found
                    /\ zone_matches(Zones(t), other) = zoned
    /\ \A t \in Done :
          \A k \in 1..Len(Answers(t)) :
              \/ IsWildcard(Answers(t)[k])
              \/ normalize(str(Answers(t)[k].rname))
                     = normalize(str(Capitals(threads[t].request.qname)))

\* C14 witness: a query was answered with a record whose owner is spelled in
\* the other case
C14_Witness ==
    \E t \in Done :
        /\ Replied(t)
        /\ \E k \in 1..Len(Answers(t)) :
              /\ Answers(t)[k].rname # threads[t].request.qname
              /\ SameLabels(Answers(t)[k].rname, threads[t].request.qname)

(***************************************************************************)
(* The lifecycle controller, DNSServer, one action per control call.  The  *)
(* calls arrive on the GLib main loop of the D-Bus service, one at a time. *)
(***************************************************************************)
\* the record files on disk; a path outside the domain cannot be opened
Files ==
    ("zones" :> <<RR(<<<<"a">>>>, "A", 1), RR(<<<<"a">>>>, "A", 2)>>) @@
    ("overrides" :> <<RR(<<<<"*">>, <<"a">>>>, "A", 1)>>) @@
    ("zones2" :> <<RR(<<<<"a">>>>, "A", 3)>>) @@
    ("overrides2" :> <<RR(<<<<"*">>, <<"a">>>>, "A", 2)>>)

\* the values a caller passes to configure, by setting
ValuesFor(setting) ==
    CASE setting = "zone_file" -> {"zones", "nofile"}
      [] setting = "override_file" -> {"overrides", "nofile"}
      [] setting = "primary_upstream" -> Upstreams
      [] setting = "backup_upstream" -> Upstreams
      [] setting = "laddr" -> {"ip1", "ip2"}
      [] setting = "lport" -> {"53", "dns"}
      [] setting = "ttl" -> {"60", "61", "5%"}
      [] OTHER -> {"x"}

\* settings that configure calls have moved away from the configuration file
MaxChanged == 1

Changed(cfg) == Cardinality({s \in Settings : cfg[s] # InitialConfig[s]})

\* what the environment may refuse during a call: reading a record file,
\* binding the listener's socket, starting its thread, shutting it down
StartFaults == {"none", "load", "bind", "thread"}

StopFaults == {"none", "stop"}

\* setting names that configure does not know
Unrecognized == {"log_file", "bogus"}

\* DNSResolver.__init__: the step of it that raises, if any
LoadFails(cfg, fault) ==
    \/ cfg["zone_file"] \notin DOMAIN Files
    \/ cfg["override_file"] \notin DOMAIN Files
    \/ fault = "load"

DNSResolver_init(cfg) ==
    [primary_upstream |-> cfg["primary_upstream"],
     backup_upstream |-> cfg["backup_upstream"],
     dns_zone_records |-> Files[cfg["zone_file"]],
     dns_override_records |-> Files[cfg["override_file"]],
     query |-> 0]

\* dnslib_DNSServer(resolver, port=int(lport), address=laddr) raises
BindFails(cfg, fault) == cfg["lport"] \notin DOMAIN Numerals \/ fault = "bind"

\* mutant: the state is set before the listener's thread is started
start_dns_server_state_first(srv, fault) ==
    IF LoadFails(srv.config, fault) \/ BindFails(srv.config, fault)
    THEN [srv EXCEPT !.raised = TRUE]
    ELSE LET listener == [resolver |-> Len(srv.resolvers) + 1,
                          address |-> srv.config["laddr"],
                          port |-> Numerals[srv.config["lport"]],
                          serving |-> FALSE]
             built == [srv EXCEPT !.resolvers = Append(@, DNSResolver_init(srv.config)),
                                  !.dns_server = <<listener>>,
                                  !.state = "running"]
         IN  IF fault = "thread"
             THEN [built EXCEPT !.raised = TRUE]
             ELSE [built EXCEPT !.dns_server[1].serving = TRUE]

\* the controller's fields after _start_dns_server, and whether it raised
start_dns_server(srv, fault) ==
    IF LoadFails(srv.config, fault) \/ BindFails(srv.config, fault)
    THEN [srv EXCEPT !.raised = TRUE]
    ELSE LET listener == [resolver |-> Len(srv.resolvers) + 1,
                          address |-> srv.config["laddr"],
                          port |-> Numerals[srv.config["lport"]],
                          serving |-> FALSE]
             built == [srv EXCEPT !.resolvers = Append(@, DNSResolver_init(srv.config)),
                                  !.dns_server = <<listener>>]
         IN  IF fault = "thread"
             THEN [built EXCEPT !.raised = TRUE]
             ELSE [built EXCEPT !.dns_server[1].serving = TRUE,
                                !.state = "running"]

\* mutant: a shutdown that raises has taken the listener out of service first
stop_dns_server_shuts_down_first(srv, fault) ==
    IF fault = "stop"
    THEN [srv EXCEPT !.dns_server[1].serving = FALSE, !.raised = TRUE]
    ELSE [srv EXCEPT !.dns_server[1].serving = FALSE,
                     !.state = "not running"]

\* the controller's fields after _stop_dns_server, and whether it raised
stop_dns_server(srv, fault) ==
    IF fault = "stop"
    THEN [srv EXCEPT !.raised = TRUE]
    ELSE [srv EXCEPT !.dns_server[1].serving = FALSE,
                     !.state = "not running"]

\* mutant: when the start half fails the stopped listener is put back to work
restart_dns_server_resumes(srv, fault) ==
    LET stopped == stop_dns_server(srv, fault)
        started == start_dns_server(stopped, fault)
    IN  IF stopped.raised THEN stopped
        ELSE IF started.raised THEN [srv EXCEPT !.raised = TRUE]
        ELSE started

\* _restart_dns_server: the start half runs only if the stop half returned
restart_dns_server(srv, fault) ==
    LET stopped == stop_dns_server(srv, fault) IN
    IF stopped.raised THEN stopped ELSE start_dns_server(stopped, fault)

Controller ==
    [config |-> config, state |-> state, dns_server |-> dns_server,
     resolvers |-> resolvers, raised |-> FALSE]

\* the controller's fields become those a startup/shutdown sequence left
Becomes(srv) ==
    /\ state' = srv.state
    /\ LET left == Collect(srv.resolvers, srv.dns_server, threads) IN
       /\ dns_server' = left.dns_server
       /\ resolvers' = left.resolvers
       /\ threads' = left.threads
    /\ outcome' = IF srv.raised THEN "StateChangeError" ELSE "returned"

\* mutant: start does not look at the state
start_unchecked(fault) ==
    /\ Becomes(start_dns_server(Controller, fault))
    /\ UNCHANGED <<config, calls>>

start(fault) ==
    /\ IF state = "running"
       THEN /\ outcome' = "StateChangeError"
            /\ UNCHANGED <<state, dns_server, resolvers, threads>>
       ELSE Becomes(start_dns_server(Controller, fault))
    /\ UNCHANGED <<config, calls>>

stop(fault) ==
    /\ IF state = "not running"
       THEN /\ outcome' = "StateChangeError"
            /\ UNCHANGED <<state, dns_server, resolvers, threads>>
       ELSE Becomes(stop_dns_server(Controller, fault))
    /\ UNCHANGED <<config, calls>>

restart(fault) ==
    /\ IF state = "not running"
       THEN /\ outcome' = "StateChangeError"
            /\ UNCHANGED <<state, dns_server, resolvers, threads>>
       ELSE Becomes(restart_dns_server(Controller, fault))
    /\ UNCHANGED <<config, calls>>

\* the configuration is a configparser.ConfigParser, whose interpolation
\* refuses to store a value with a % that is neither doubled nor opens %(name)s
invalid_interpolation(value) == value \in {"5%"}

\* mutant: the running resolver reads its upstreams from the configuration,
\* so a new upstream address is used at once
configure_reloads(setting, value) ==
    /\ IF setting \in {"zone_file", "override_file", "primary_upstream",
                       "backup_upstream", "laddr", "lport", "ttl"}
       THEN IF invalid_interpolation(value)
            THEN /\ outcome' = "ValueError"
                 /\ UNCHANGED <<config, resolvers>>
            ELSE /\ config' = [config EXCEPT ![setting] = value]
                 /\ outcome' = "returned"
                 /\ resolvers' =
                        IF dns_server # <<>>
                           /\ setting \in {"primary_upstream", "backup_upstream"}
                        THEN [resolvers EXCEPT ![dns_server[1].resolver][setting] = value]
                        ELSE resolvers
       ELSE /\ outcome' = "ConfigurationError"
            /\ UNCHANGED <<config, resolvers>>
    /\ UNCHANGED <<state, dns_server, threads, calls>>

configure(setting, value) ==
    /\ IF setting \in {"zone_file", "override_file", "primary_upstream",
                       "backup_upstream", "laddr", "lport", "ttl"}
       THEN IF invalid_interpolation(value)
            THEN /\ outcome' = "ValueError"
                 /\ UNCHANGED config
            ELSE /\ config' = [config EXCEPT ![setting] = value]
                 /\ outcome' = "returned"
       ELSE /\ outcome' = "ConfigurationError"
            /\ UNCHANGED config
    /\ UNCHANGED <<state, dns_server, resolvers, threads, calls>>

\* the configure calls explored: those that keep the configuration near the file's
Calls ==
    {call \in UNION {{<<setting, value>> : value \in ValuesFor(setting)} :
                        setting \in Settings \cup Unrecognized} :
        (call[1] \in Settings /\ ~invalid_interpolation(call[2])) =>
            Changed([config EXCEPT ![call[1]] = call[2]]) <= MaxChanged}

Init ==
    /\ config = InitialConfig
    /\ state = "not running"
    /\ dns_server = <<>>
    /\ resolvers = <<>>
    /\ threads = [t \in Handlers |-> IdleThread]
    /\ outcome = "returned"
    /\ calls = [c \in Callers |-> IdleCall]

Next ==
    \/ \E fault \in StartFaults : start(fault)
    \/ \E fault \in StopFaults : stop(fault)
    \/ \E fault \in StartFaults \cup StopFaults : restart(fault)
    \/ \E call \in Calls : configure(call[1], call[2])
    \/ Resolve(Solo, FewQueries, FewOutcomes)

Spec == Init /\ [][Next]_vars

(***************************************************************************)
(* Properties of the lifecycle controller.                                 *)
(***************************************************************************)
\* C8: start on a running server, and stop or restart on one that is not
\* running, raise StateChangeError and leave the state, the listener and the
\* loaded record sets as they were.
C8_PreconditionRejection ==
    [][\A fault \in StartFaults \cup StopFaults :
          (\/ state = "running" /\ start(fault)
           \/ state = "not running" /\ stop(fault)
           \/ state = "not running" /\ restart(fault)) =>
              /\ outcome' = "StateChangeError"
              /\ UNCHANGED <<state, dns_server, resolvers>>]_vars

\* C8 witness: a call was rejected while the server runs and serves
C8_Witness ==
    /\ state = "running"
    /\ outcome = "StateChangeError"
    /\ dns_server[1].serving

\* every configure call, recognized or not
AllCalls ==
    UNION {{<<setting, value>> : value \in ValuesFor(setting)} :
              setting \in Settings \cup Unrecognized}

\* C9: configure with a name outside the seven settings raises
\* ConfigurationError and changes no entry; with one of the seven it sets that
\* entry to the value and leaves the other entries and the state alone.
C9_ConfigureValidation ==
    [][\A call \in AllCalls :
          configure(call[1], call[2]) =>
              IF call[1] \in {"zone_file", "override_file", "primary_upstream",
                              "backup_upstream", "laddr", "lport", "ttl"}
              THEN /\ config'[call[1]] = call[2]
                   /\ \A other \in Settings \ {call[1]} : config'[other] = config[other]
                   /\ outcome' = "returned"
                   /\ state' = state
              ELSE /\ outcome' = "ConfigurationError"
                   /\ config' = config]_vars

\* the configuration cannot be started from: a record file is missing or the
\* port is no number
Unusable(cfg) ==
    \/ cfg["zone_file"] = "nofile"
    \/ cfg["override_file"] = "nofile"
    \/ cfg["lport"] = "dns"

\* C10: a start on a server that is not running, in which loading a record set,
\* binding the listener or starting its thread fails, raises StateChangeError
\* and leaves the state not running; the state becomes running only with both
\* record sets loaded and the listener serving.
C10_FailedStart ==
    [][\A fault \in StartFaults :
          (state = "not running" /\ start(fault)) =>
              /\ (fault # "none" \/ Unusable(config)) =>
                     outcome' = "StateChangeError" /\ state' = "not running"
              /\ state' = "running" =>
                     /\ fault = "none" /\ ~Unusable(config)
                     /\ outcome' = "returned"
                     /\ dns_server' # <<>>
                     /\ dns_server'[1].serving
                     /\ resolvers'[dns_server'[1].resolver].dns_zone_records
                            = Files[config["zone_file"]]
                     /\ resolvers'[dns_server'[1].resolver].dns_override_records
                            = Files[config["override_file"]]]_vars

\* C10 witness: a start failed on a configuration whose zone file is missing;
\* nothing was ever started
C10_Witness ==
    /\ config["zone_file"] = "nofile"
    /\ outcome = "StateChangeError"
    /\ state = "not running"
    /\ dns_server = <<>>

\* C11: a restart of a running server whose stop half succeeds and whose start
\* half fails (a record file is missing, the port is no number, or loading,
\* binding or starting the thread is refused) raises StateChangeError, leaves
\* the state not running, and leaves no listener serving: the records and the
\* listener that ran before are not back in service.
C11_FailedRestart ==
    [][\A fault \in StartFaults :
          (/\ state = "running"
           /\ restart(fault)
           /\ (fault # "none" \/ Unusable(config))) =>
              /\ outcome' = "StateChangeError"
              /\ state' = "not running"
              /\ dns_server' # <<>>
              /\ ~dns_server'[1].serving]_vars

\* C11 witness: after a configure that named a missing zone file, the server is
\* down with an error and its stopped listener still holds the records that
\* ran before
C11_Witness ==
    /\ state = "not running"
    /\ outcome = "StateChangeError"
    /\ config["zone_file"] = "nofile"
    /\ dns_server # <<>>
    /\ ~dns_server[1].serving
    /\ resolvers[dns_server[1].resolver].dns_zone_records = Files["zones"]

\* what the running server answers with: the records and upstreams of the
\* listener's resolver, and the address and port the listener is bound to
InService ==
    LET resolver == resolvers[dns_server[1].resolver] IN
    [dns_zone_records |-> resolver.dns_zone_records,
     dns_override_records |-> resolver.dns_override_records,
     primary_upstream |-> resolver.primary_upstream,
     backup_upstream |-> resolver.backup_upstream,
     address |-> dns_server[1].address,
     port |-> dns_server[1].port]

\* the same, as a start from the configuration cfg sets them up
FromConfiguration(cfg) ==
    [dns_zone_records |-> Files[cfg["zone_file"]],
     dns_override_records |-> Files[cfg["override_file"]],
     primary_upstream |-> cfg["primary_upstream"],
     backup_upstream |-> cfg["backup_upstream"],
     address |-> cfg["laddr"],
     port |-> Numerals[cfg["lport"]]]

\* C12: whenever the server runs after a step, either it ran before the step
\* and answers with the same records, upstreams, address and port as before
\* (so after every configure call), or the step was a start or restart that
\* returned and it answers with what the configuration held at that step; and
\* every upstream a query has been sent to is one its resolver captured then.
C12_ConfigureInert ==
    [][/\ state' = "running" =>
             \/ state = "running" /\ InService' = InService
             \/ /\ config' = config
                /\ outcome' = "returned"
                /\ InService' = FromConfiguration(config)
       /\ \A t \in Handlers : \A k \in 1..Len(threads'[t].attempts) :
             threads'[t].attempts[k].upstream \in
                 {resolvers'[threads'[t].self].primary_upstream,
                  resolvers'[threads'[t].self].backup_upstream}]_vars

\* C12 witness: a query was sent to the upstream captured at the start, after
\* configure had named another primary upstream
C12_Witness ==
    /\ state = "running"
    /\ \E t \in Handlers :
          /\ threads[t].attempts # <<>>
          /\ threads[t].self = dns_server[1].resolver
          /\ threads[t].attempts[1].upstream = InitialConfig["primary_upstream"]
          /\ config["primary_upstream"] # InitialConfig["primary_upstream"]

\* a listener is bound and its thread serves queries
Serving == dns_server # <<>> /\ dns_server[1].serving

\* the listener's resolver holds a zone set and an override set that are each
\* the whole content of a record file
FullyLoaded ==
    /\ dns_server # <<>>
    /\ \E path \in DOMAIN Files :
          resolvers[dns_server[1].resolver].dns_zone_records = Files[path]
    /\ \E path \in DOMAIN Files :
          resolvers[dns_server[1].resolver].dns_override_records = Files[path]

Held ==
    IF dns_server = <<>> THEN {}
    ELSE {resolvers[dns_server[1].resolver].dns_zone_records,
          resolvers[dns_server[1].resolver].dns_override_records} \ {<<>>}

\* C22: a stop of a running server that returns leaves the state not running,
\* the listener out of service and no zone or override record set of the
\* stopped run held by the controller; and while the state is not running no
\* query is dispatched to resolve.
C22_StopEffect ==
    [][/\ \A fault \in StopFaults :
             (state = "running" /\ stop(fault) /\ outcome' = "returned") =>
                 /\ state' = "not running"
                 /\ ~Serving'
                 /\ Held' = {}
       /\ state = "not running" => \A t \in Handlers : ~Dispatch(t, FewQueries)]_vars

(***************************************************************************)
(* The control calls statement by statement.  pydbus runs each method call *)
(* of the published object as a callback of the GLib main loop, and the    *)
(* loop runs one callback to its end before it takes the next.             *)
(***************************************************************************)
\* the configure calls of the callers: either version of each record file
StoreCalls ==
    {<<"zone_file", "zones">>, <<"zone_file", "zones2">>,
     <<"override_file", "overrides">>, <<"override_file", "overrides2">>,
     <<"bogus", "x">>}

\* the method calls a caller may make, as the loop takes them up
Methods ==
    {[IdleCall EXCEPT !.op = "Start", !.pc = "check", !.fault = fault] :
        fault \in StartFaults}
    \cup {[IdleCall EXCEPT !.op = "Stop", !.pc = "check", !.fault = fault] :
        fault \in StopFaults}
    \cup {[IdleCall EXCEPT !.op = "Restart", !.pc = "check", !.fault = fault] :
        fault \in StartFaults \cup StopFaults}
    \cup {[IdleCall EXCEPT !.op = "Configure", !.pc = "configure",
                           !.setting = call[1], !.value = call[2]] :
        call \in StoreCalls}
    \cup {[IdleCall EXCEPT !.op = "State", !.pc = "read"]}

\* mutant: every method call runs on a thread of its own
MainLoop_threaded(c) ==
    /\ calls[c].pc = "idle"
    /\ \E method \in Methods : calls' = [calls EXCEPT ![c] = method]
    /\ UNCHANGED <<config, state, dns_server, resolvers, threads, outcome>>

\* mutant: restart hands its start half to the loop as a callback of its own
MainLoop_between_halves(c) ==
    /\ calls[c].pc = "idle"
    /\ \A d \in Callers : calls[d].pc \in {"idle", "zones"}
    /\ \E method \in Methods : calls' = [calls EXCEPT ![c] = method]
    /\ UNCHANGED <<config, state, dns_server, resolvers, threads, outcome>>

\* GLib.MainLoop().run(): the loop takes up a call when no callback is running
MainLoop(c) ==
    /\ \A d \in Callers : calls[d].pc = "idle"
    /\ \E method \in Methods : calls' = [calls EXCEPT ![c] = method]
    /\ UNCHANGED <<config, state, dns_server, resolvers, threads, outcome>>

\* the call ends: it returned, or the exception it raised was logged
Return(c, how) ==
    /\ calls' = [calls EXCEPT ![c] = IdleCall]
    /\ outcome' = how

\* the test of the state that start, stop and restart begin with
Check(c) ==
    /\ calls[c].pc = "check"
    /\ LET me == calls[c] IN
       IF \/ me.op = "Start" /\ state = "running"
          \/ me.op \in {"Stop", "Restart"} /\ state = "not running"
       THEN Return(c, "StateChangeError")
       ELSE /\ calls' = [calls EXCEPT ![c].pc =
                            IF me.op = "Start" THEN "zones" ELSE "stop"]
            /\ UNCHANGED outcome
    /\ UNCHANGED <<config, state, dns_server, resolvers, threads>>

\* _stop_dns_server: self.dns_server.stop()
StopListener(c) ==
    /\ calls[c].pc = "stop"
    /\ IF calls[c].fault = "stop"
       THEN Return(c, "StateChangeError") /\ UNCHANGED dns_server
       ELSE /\ dns_server' = [dns_server EXCEPT ![1].serving = FALSE]
            /\ calls' = [calls EXCEPT ![c].pc = "stopped"]
            /\ UNCHANGED outcome
    /\ UNCHANGED <<config, state, resolvers, threads>>

\* _stop_dns_server: self.state = "not running"; restart goes on to start
SetStopped(c) ==
    /\ calls[c].pc = "stopped"
    /\ state' = "not running"
    /\ IF calls[c].op = "Stop"
       THEN Return(c, "returned")
       ELSE /\ calls' = [calls EXCEPT ![c].pc = "zones"]
            /\ UNCHANGED outcome
    /\ UNCHANGED <<config, dns_server, resolvers, threads>>


\* DNSResolver.__init__, lines 25-30: the upstreams and the zone records
LoadZones(c) ==
    /\ calls[c].pc = "zones"
    /\ IF config["zone_file"] \notin DOMAIN Files \/ calls[c].fault = "load"
       THEN Return(c, "StateChangeError")
       ELSE /\ calls' = [calls EXCEPT
                  ![c].resolver = <<[primary_upstream |-> config["primary_upstream"],
                                     backup_upstream |-> config["backup_upstream"],
                                     dns_zone_records |-> Files[config["zone_file"]]]>>,
                  ![c].pc = "overrides"]
            /\ UNCHANGED outcome
    /\ UNCHANGED <<config, state, dns_server, resolvers, threads>>

\* mutant: the override records are read from the file named when the daemon began
LoadOverrides_first_path(c) ==
    /\ calls[c].pc = "overrides"
    /\ LET partial == calls[c].resolver[1] IN
       /\ calls' = [calls EXCEPT
             ![c].resolver = <<[primary_upstream |-> partial.primary_upstream,
                                backup_upstream |-> partial.backup_upstream,
                                dns_zone_records |-> partial.dns_zone_records,
                                dns_override_records |-> Files[InitialConfig["override_file"]],
                                query |-> 0]>>,
             ![c].pc = "bind"]
       /\ UNCHANGED outcome
    /\ UNCHANGED <<config, state, dns_server, resolvers, threads>>

\* DNSResolver.__init__, lines 31-35: the override records and the counter
LoadOverrides(c) ==
    /\ calls[c].pc = "overrides"
    /\ IF config["override_file"] \notin DOMAIN Files
       THEN Return(c, "StateChangeError")
       ELSE LET partial == calls[c].resolver[1] IN
            /\ calls' = [calls EXCEPT
                  ![c].resolver = <<[primary_upstream |-> partial.primary_upstream,
                                     backup_upstream |-> partial.backup_upstream,
                                     dns_zone_records |-> partial.dns_zone_records,
                                     dns_override_records |-> Files[config["override_file"]],
                                     query |-> 0]>>,
                  ![c].pc = "bind"]
            /\ UNCHANGED outcome
    /\ UNCHANGED <<config, state, dns_server, resolvers, threads>>

\* self.dns_server = dnslib_DNSServer(resolver, port=int(lport), address=laddr)
Bind(c) ==
    /\ calls[c].pc = "bind"
    /\ IF BindFails(config, calls[c].fault)
       THEN Return(c, "StateChangeError") /\ UNCHANGED <<dns_server, resolvers, threads>>
       ELSE LET listener == [resolver |-> Len(resolvers) + 1,
                             address |-> config["laddr"],
                             port |-> Numerals[config["lport"]],
                             serving |-> FALSE]
                left == Collect(Append(resolvers, calls[c].resolver[1]),
                                <<listener>>, threads)
            IN  /\ dns_server' = left.dns_server
                /\ resolvers' = left.resolvers
                /\ threads' = left.threads
                /\ calls' = [calls EXCEPT ![c].resolver = <<>>, ![c].pc = "thread"]
                /\ UNCHANGED outcome
    /\ UNCHANGED <<config, state>>

\* self.dns_server.start_thread()
StartThread(c) ==
    /\ calls[c].pc = "thread"
    /\ IF calls[c].fault = "thread"
       THEN Return(c, "StateChangeError") /\ UNCHANGED dns_server
       ELSE /\ dns_server' = [dns_server EXCEPT ![1].serving = TRUE]
            /\ calls' = [calls EXCEPT ![c].pc = "running"]
            /\ UNCHANGED outcome
    /\ UNCHANGED <<config, state, resolvers, threads>>

\* _start_dns_server: self.state = "running", and the call returns
SetRunning(c) ==
    /\ calls[c].pc = "running"
    /\ state' = "running"
    /\ Return(c, "returned")
    /\ UNCHANGED <<config, dns_server, resolvers, threads>>

\* Configure(setting, value): DNSServer.configure, in one statement
Configure(c) ==
    /\ calls[c].pc = "configure"
    /\ LET me == calls[c] IN
       IF me.setting \in {"zone_file", "override_file", "primary_upstream",
                          "backup_upstream", "laddr", "lport", "ttl"}
       THEN IF invalid_interpolation(me.value)
            THEN Return(c, "ValueError") /\ UNCHANGED config
            ELSE /\ config' = [config EXCEPT ![me.setting] = me.value]
                 /\ Return(c, "returned")
       ELSE Return(c, "ConfigurationError") /\ UNCHANGED config
    /\ UNCHANGED <<state, dns_server, resolvers, threads>>

\* the State property: return self.state
ReadState(c) ==
    /\ calls[c].pc = "read"
    /\ calls' = [calls EXCEPT ![c] = [IdleCall EXCEPT !.seen = state]]
    /\ UNCHANGED <<config, state, dns_server, resolvers, threads, outcome>>

NextMainLoop ==
    \E c \in Callers :
        \/ MainLoop(c)
        \/ Check(c)
        \/ StopListener(c)
        \/ SetStopped(c)
        \/ LoadZones(c)
        \/ LoadOverrides(c)
        \/ Bind(c)
        \/ StartThread(c)
        \/ SetRunning(c)
        \/ Configure(c)
        \/ ReadState(c)

SpecMainLoop == Init /\ [][NextMainLoop]_vars

(***************************************************************************)
(* Properties of the control calls on the main loop.                       *)
(***************************************************************************)
\* the record sets of the listener's resolver
Store ==
    [dns_zone_records |-> resolvers[dns_server[1].resolver].dns_zone_records,
     dns_override_records |-> resolvers[dns_server[1].resolver].dns_override_records]

\* C13: whenever the server runs after a step, either it ran before the step
\* with the same zone and override records, or the step completed a start or
\* restart and both record sets are those of the files the configuration names
\* at that moment: the two sets are never of different configurations.
C13_SingleGeneration ==
    [][state' = "running" =>
          \/ state = "running" /\ Store' = Store
          \/ /\ config' = config
             /\ Store' = [dns_zone_records |-> Files[config["zone_file"]],
                          dns_override_records |-> Files[config["override_file"]]]]_vars

\* C13 witness: the server runs on the second version of both files, which two
\* configure calls named before the start, and a configure call made since
\* names the first zone file again
C13_Witness ==
    /\ state = "running"
    /\ Store = [dns_zone_records |-> Files["zones2"],
                dns_override_records |-> Files["overrides2"]]
    /\ config["zone_file"] = "zones"

\* a restart that has set the state to not running and has not yet set it back
MidRestart(call) ==
    call.op = "Restart" /\ call.pc \in {"zones", "overrides", "bind", "thread", "running"}

\* C15: no read of the State property and no state test of another lifecycle
\* call happens while a restart stands between its stop half and its start
\* half.
C15_RestartAtomic ==
    [][\A c \in Callers :
          (ReadState(c) \/ Check(c)) =>
              \A d \in Callers \ {c} : ~MidRestart(calls[d])]_vars

\* C15 witness: a restart stands between its halves, the state is not running,
\* and the State property, read before the restart began, was running
C15_Witness ==
    \E c \in Callers : \E d \in Callers \ {c} :
        /\ calls[c].seen = "running"
        /\ calls[c].pc = "idle"
        /\ MidRestart(calls[d])
        /\ state = "not running"

\* C16: at most one of start, stop, restart and configure is executing.
C16_MutualExclusion ==
    \A c \in Callers : \A d \in Callers \ {c} :
        calls[c].pc = "idle" \/ calls[d].pc = "idle"

\* C16 witness: a start is binding its listener after the other caller's
\* configure call named the second zone file
C16_Witness ==
    \E c \in Callers :
        /\ calls[c].op = "Start"
        /\ calls[c].pc = "bind"
        /\ config["zone_file"] = "zones2"
        /\ outcome = "returned"

(***************************************************************************)
(* Properties of concurrent resolve calls.                                 *)
(***************************************************************************)
\* the counter of the listener's resolver
Counter == resolvers[dns_server[1].resolver].query

\* C17: with resolve calls running together on one resolver, the counter never
\* goes down from one step to the next, and every increment adds one to the
\* value the counter has when it is written (none is lost).
C17_CounterRaceFree ==
    [][/\ Counter' >= Counter
       /\ \A t \in Handlers : IncWrite(t) => Counter' = Counter + 1]_vars

(***************************************************************************)
(* Properties of the two copies of resolve.                                *)
(***************************************************************************)
\* the tier a returned call answered from
Tier(t) ==
    IF ~Replied(t) THEN "upstream"
    ELSE IF threads[t].zone_consulted THEN "zone" ELSE "override"

\* by how much a returned call changed the counter of its resolver
Counted(t) == resolvers[threads[t].self].query - threads[t].query0

\* C23: for the same query, record sets, upstream addresses and upstream
\* behaviour, RougeDNSServer.resolve and DNSResolver.resolve answer from the
\* same tier, return the same reply (the same answers and authoritative flag,
\* the same upstream's response) or both none, contact the same upstreams in
\* the same order, and change the counter by the same amount.
C23_CopiesEquivalent ==
    threads[Standalone].pc = "done" =>
        /\ threads[Daemon].pc = "done"
        /\ threads[Standalone].request = threads[Daemon].request
        /\ Tier(Standalone) = Tier(Daemon)
        /\ threads[Standalone].ret = threads[Daemon].ret
        /\ threads[Standalone].attempts = threads[Daemon].attempts
        /\ Counted(Standalone) = Counted(Daemon)

\* C23 witness: both copies have answered a query from a wildcard override
\* record, having contacted no upstream
C23_Witness ==
    /\ threads[Standalone].pc = "done"
    /\ threads[Daemon].pc = "done"
    /\ Tier(Standalone) = "override"
    /\ Answers(Standalone) # <<>>
    /\ \A k \in 1..Len(Answers(Standalone)) : IsWildcard(Answers(Standalone)[k])
    /\ threads[Standalone].attempts = <<>>
    /\ Counted(Standalone) = 1

====
